---- MODULE Spec2Model ----
(***************************************************************************)
(* Model of SerialDataPlotter (src/main.py): the serial frame decoder      *)
(* get_serial_data, the nine bounded history windows (deque(maxlen=50)),   *)
(* the estimator calculate_rpy, the timer slot update_plot and the radio   *)
(* button slot change_algorithm.                                           *)
(*                                                                         *)
(* Bytes are integers 0..255, byte strings are sequences of bytes.  Python *)
(* None is modelled as the empty tuple: both are falsy in `if values:`.    *)
(* Angles are whole degrees; the sensor patterns used below only produce   *)
(* directions whose arctangent is a multiple of 45 degrees, so the value   *)
(* is exact.                                                               *)
(***************************************************************************)
EXTENDS Integers, Sequences, FiniteSets, TLC

VARIABLES
    data,                \* self.data: six windows ax, ay, az, gx, gy, gz
    angle_data,          \* self.angle_data: three windows roll, pitch, yaw
    curves,              \* what the six raw curves last got through setData
    angle_curves,        \* what the three angle curves last got through setData
    cube,                \* the cube's transform: the rotations since the last reset
    selected_algorithm,  \* self.selected_algorithm
    rx_buffer,           \* bytes waiting in the serial port's input buffer
    wire,                \* bytes the sensor put on the line for the latest read
    values,              \* what the latest get_serial_data call returned
    op,                  \* the latest operation: "init", "read", "tick", "select"
    refreshed,           \* whether the latest update_plot call refreshed the curves
    accepted,            \* number of samples appended to the windows so far
    refreshes,           \* number of plot refreshes so far
    escaped,             \* the exception that left the latest slot call, "" when none
    timer_active,        \* whether self.timer is running
    estimated_with,      \* the algorithm calculate_rpy branched on in the latest
                         \* tick, 0 when the tick did not call it
    last_selected,       \* the id the latest selection event carried, 0 before any
    fault,               \* the port call that raised in the latest tick, "" when none
    discarded,           \* the bytes the latest reset_input_buffer() threw away
    fed,                 \* ticks so far, while every one of them was fed a wire-format
                         \* frame under algorithm 1; -1 once that stopped being so,
                         \* and after MaxFed such ticks
    win,                 \* a stand-alone deque (window specification)
    win_maxlen,          \* its maxlen
    win_appended         \* everything appended to it so far, in order

vars == <<data, angle_data, curves, angle_curves, cube, selected_algorithm,
          rx_buffer, wire, values, op, refreshed, accepted, refreshes, escaped,
          timer_active, estimated_with, last_selected, fault, discarded, fed,
          win, win_maxlen, win_appended>>

----------------------------------------------------------------------------
(* Program constants *)

PLOT_LENGTH == 50

SYNC == <<170, 85>>

\* bytes.strip() with no argument removes ASCII whitespace: \t \n \v \f \r and space
WHITESPACE == {9, 10, 11, 12, 13, 32}

\* readline() reads up to and including the first b'\n'
NEWLINE == <<10>>

None == <<>>

----------------------------------------------------------------------------
(* Bounds *)

\* samples the windows take before the model stops the timer
MaxAccepted == 53

\* length of the first run of frames that `fed` counts
MaxFed == 7

\* the line misbehaves (stray bytes, losses, port faults) while fewer than
\* RichEarly samples were taken, and again from RichLate samples before the
\* windows are full; in between it delivers one clean frame per tick
RichEarly == 4

RichLate == 3

\* largest maxlen of the stand-alone deque
MaxCap == 3

\* appends to the stand-alone deque
MaxAppends == 5

----------------------------------------------------------------------------
(* Byte strings *)

Min(a, b) == IF a <= b THEN a ELSE b

\* the Python slices s[:n] and s[n:]
TakeFirst(s, n) == SubSeq(s, 1, Min(n, Len(s)))

DropFirst(s, n) == SubSeq(s, n + 1, Len(s))

\* index of the first line feed of b, 0 when it has none
FirstNewline(b) ==
    IF \E i \in 1..Len(b) : b[i] = NEWLINE[1]
    THEN CHOOSE i \in 1..Len(b) : b[i] = NEWLINE[1] /\ \A j \in 1..(i - 1) : b[j] # NEWLINE[1]
    ELSE 0

\* serial_port.readline(): the bytes up to and including the first line feed;
\* without one the read ends at the timeout with everything that arrived
Readline(stream) ==
    IF FirstNewline(stream) = 0 THEN stream ELSE SubSeq(stream, 1, FirstNewline(stream))

\* what readline() leaves in the port's input buffer
AfterReadline(stream) ==
    IF FirstNewline(stream) = 0 THEN <<>> ELSE DropFirst(stream, FirstNewline(stream))

RECURSIVE LStrip(_)
LStrip(b) == IF b # <<>> /\ Head(b) \in WHITESPACE THEN LStrip(Tail(b)) ELSE b

RECURSIVE RStrip(_)
RStrip(b) ==
    IF b # <<>> /\ b[Len(b)] \in WHITESPACE THEN RStrip(SubSeq(b, 1, Len(b) - 1)) ELSE b

\* bytes.strip(): leading and trailing whitespace removed
Strip(b) == RStrip(LStrip(b))

\* one big-endian signed 16-bit integer ('>h')
Int16FromBytes(hi, lo) ==
    IF hi * 256 + lo >= 32768 THEN hi * 256 + lo - 65536 ELSE hi * 256 + lo

\* a variant that reads the first 12 bytes and ignores what follows, as
\* struct.unpack_from does
StructUnpackFrom6h(payload) ==
    IF Len(payload) < 12
    THEN [raised |-> TRUE, value |-> None]
    ELSE [raised |-> FALSE,
          value |-> [i \in 1..6 |-> Int16FromBytes(payload[2 * i - 1], payload[2 * i])]]

\* struct.unpack('>6h', payload): raises struct.error unless payload has 12 bytes
StructUnpack6h(payload) ==
    IF Len(payload) # 12
    THEN [raised |-> TRUE, value |-> None]
    ELSE [raised |-> FALSE,
          value |-> [i \in 1..6 |-> Int16FromBytes(payload[2 * i - 1], payload[2 * i])]]

\* the two bytes of a signed 16-bit integer, big-endian, as the sensor sends it
Int16ToBytes(v) ==
    LET u == IF v < 0 THEN v + 65536 ELSE v IN <<u \div 256, u % 256>>

\* the 14-byte wire frame of a sample: sync marker, then six int16BE
Frame(sample) ==
    SYNC \o Int16ToBytes(sample[1]) \o Int16ToBytes(sample[2]) \o Int16ToBytes(sample[3])
         \o Int16ToBytes(sample[4]) \o Int16ToBytes(sample[5]) \o Int16ToBytes(sample[6])

----------------------------------------------------------------------------
(* get_serial_data *)

\* lines 135-143 on the bytes readline() returned: strip, sync check, unpack;
\* the bare except of line 141 catches struct.error and falls to line 143
DecodeLine(raw) ==
    LET line == Strip(raw) IN
    IF line # <<>> /\ TakeFirst(line, 2) = SYNC
    THEN LET u == StructUnpack6h(DropFirst(line, 2)) IN
         IF u.raised THEN [ret |-> None, error |-> ""] ELSE [ret |-> u.value, error |-> ""]
    ELSE [ret |-> None, error |-> ""]

\* the port calls of lines 134-135 that may raise serial.SerialException
PortFaults == {"reset_input_buffer", "readline"}

\* a variant without line 134: the read starts with what was buffered
GetSerialDataNoReset(buffered, incoming, port_fault) ==
    IF port_fault \in PortFaults
    THEN [ret |-> None, error |-> "SerialException", rx_buffer |-> buffered,
          discarded |-> <<>>]
    ELSE [ret |-> DecodeLine(Readline(buffered \o incoming)).ret,
          error |-> DecodeLine(Readline(buffered \o incoming)).error,
          rx_buffer |-> AfterReadline(buffered \o incoming),
          discarded |-> <<>>]

\* get_serial_data with `incoming` arriving on the line from the start of the
\* read on: reset_input_buffer() drops what was buffered, readline() takes one
\* line of what arrives and the rest stays buffered.  Neither port call is
\* inside a try, so a SerialException of either leaves the function.
GetSerialData(buffered, incoming, port_fault) ==
    IF port_fault = "reset_input_buffer"
    THEN [ret |-> None, error |-> "SerialException", rx_buffer |-> buffered,
          discarded |-> <<>>]
    ELSE IF port_fault = "readline"
    THEN [ret |-> None, error |-> "SerialException", rx_buffer |-> <<>>,
          discarded |-> buffered]
    ELSE [ret |-> DecodeLine(Readline(incoming)).ret,
          error |-> DecodeLine(Readline(incoming)).error,
          rx_buffer |-> AfterReadline(incoming),
          discarded |-> buffered]

----------------------------------------------------------------------------
(* calculate_rpy *)

\* the integer square root of a perfect square
ISqrt(s) == CHOOSE r \in 0..s : r * r = s

\* np.arctan2(y, x) * 180 / np.pi, for the directions where it is a multiple of 45
Atan2Deg(y, x) ==
    CASE y = 0 /\ x >= 0 -> 0
      [] y = 0 /\ x < 0 -> 180
      [] x = 0 /\ y > 0 -> 90
      [] x = 0 /\ y < 0 -> 0 - 90
      [] x > 0 /\ y = x -> 45
      [] x > 0 /\ y = 0 - x -> 0 - 45
      [] x < 0 /\ y = 0 - x -> 135
      [] x < 0 /\ y = x -> 0 - 135

\* a variant that repeats the roll as the yaw
CalculateRpyYawIsRoll(ax, ay, az, algorithm) ==
    IF algorithm = 1
    THEN <<Atan2Deg(ay, az), Atan2Deg(0 - ax, ISqrt(ay * ay + az * az)), Atan2Deg(ay, az)>>
    ELSE None

\* a variant that answers a zero triple for the unimplemented algorithms
CalculateRpyDefault(ax, ay, az, algorithm) ==
    IF algorithm = 1
    THEN <<Atan2Deg(ay, az), Atan2Deg(0 - ax, ISqrt(ay * ay + az * az)), 0>>
    ELSE <<0, 0, 0>>

\* lines 176-178: algorithm 1 returns the triple; the others fall off the end
\* of the function, which returns None
CalculateRpy(ax, ay, az, algorithm) ==
    IF algorithm = 1
    THEN <<Atan2Deg(ay, az), Atan2Deg(0 - ax, ISqrt(ay * ay + az * az)), 0>>
    ELSE None

----------------------------------------------------------------------------
(* The history windows: collections.deque(maxlen=...) *)

\* a variant without maxlen: a plain list
DequeAppendUnbounded(w, v, maxlen) == Append(w, v)

\* a variant that, once full, keeps what it has and drops the new element
DequeAppendKeepOldest(w, v, maxlen) == IF Len(w) >= maxlen THEN w ELSE Append(w, v)

\* deque.append: the new element goes to the right end, and a deque longer
\* than maxlen drops its left end
DequeAppend(w, v, maxlen) ==
    LET a == Append(w, v) IN IF Len(a) > maxlen THEN Tail(a) ELSE a

\* lines 154-155
AppendValues(d, vals) == [i \in 1..6 |-> DequeAppend(d[i], vals[i], PLOT_LENGTH)]

\* a variant that leaves the yaw window out
AppendAnglesRollPitch(a, rpy) ==
    [i \in 1..3 |-> IF i <= 2 THEN DequeAppend(a[i], rpy[i], PLOT_LENGTH) ELSE a[i]]

\* lines 157-158
AppendAngles(a, rpy) == [i \in 1..3 |-> DequeAppend(a[i], rpy[i], PLOT_LENGTH)]

\* line 161
RefreshGuard(n) == n % 5 = 0 \/ n <= PLOT_LENGTH

\* a variant that rotates about y first
CubeOrientationPitchFirst(roll, pitch) == << <<pitch, 0, 1, 0>>, <<roll, 1, 0, 0>> >>

\* update_cube_orientation: resetTransform(), then the two rotations
CubeOrientation(roll, pitch) == << <<roll, 1, 0, 0>>, <<pitch, 0, 1, 0>> >>

----------------------------------------------------------------------------
(* update_plot *)

\* `if values:` -- None and the empty tuple are falsy
Truthy(v) == v # None

\* the try block of update_plot, lines 150-169, on the view state st.  Unpacking
\* the None of an unimplemented algorithm raises TypeError at line 151, before
\* any window is touched; line 171 catches it and the call returns.
UpdatePlotBody(st, vals, algorithm) ==
    LET rpy == CalculateRpy(vals[1], vals[2], vals[3], algorithm) IN
    IF Len(rpy) # 3
    THEN [st EXCEPT !.error = "TypeError", !.algorithm = algorithm]
    ELSE LET d == AppendValues(st.data, vals)
             a == AppendAngles(st.angle_data, rpy)
             refresh == RefreshGuard(Len(d[1]))
         IN [data |-> d,
             angle_data |-> a,
             curves |-> IF refresh THEN d ELSE st.curves,
             angle_curves |-> IF refresh THEN a ELSE st.angle_curves,
             cube |-> CubeOrientation(rpy[1], rpy[2]),
             refreshed |-> refresh,
             appended |-> TRUE,
             error |-> "",
             algorithm |-> algorithm]

\* a variant without the guard of line 148: a read that gave nothing is
\* plotted as a zero sample
UpdatePlotResultNoGuard(st, vals, algorithm) ==
    LET r == UpdatePlotBody(st, IF Truthy(vals) THEN vals ELSE <<0, 0, 0, 0, 0, 0>>,
                            algorithm) IN
    IF r.error # "" THEN [r EXCEPT !.error = ""] ELSE r

\* what `except Exception` at line 171 catches, of what the body can raise
ExceptException == {"TypeError", "ValueError", "IndexError"}

\* lines 148-172: the body runs only on a sample, and an exception it raises
\* is caught and printed
UpdatePlotResult(st, vals, algorithm) ==
    IF Truthy(vals)
    THEN LET r == UpdatePlotBody(st, vals, algorithm) IN
         IF r.error \in ExceptException THEN [r EXCEPT !.error = ""] ELSE r
    ELSE st

\* a variant whose try block starts at line 147: what get_serial_data raises
\* is caught and printed too
UpdatePlotCallCatchAll(st, rd, algorithm) ==
    IF rd.error # "" THEN st ELSE UpdatePlotResult(st, rd.ret, algorithm)

\* update_plot from line 147 on: the call of get_serial_data stands before
\* the try, so what it raises leaves update_plot
UpdatePlotCall(st, rd, algorithm) ==
    IF rd.error # ""
    THEN [st EXCEPT !.error = rd.error]
    ELSE UpdatePlotResult(st, rd.ret, algorithm)

\* whether `incoming` is a frame of the wire format: the sync marker, twelve
\* payload bytes and optionally a line terminator
IsWireFrame(incoming) ==
    /\ Len(incoming) >= 14
    /\ TakeFirst(incoming, 2) = SYNC
    /\ DropFirst(incoming, 14) \in {<<>>, <<10>>, <<13, 10>>}

\* the view state update_plot works on
View ==
    [data |-> data, angle_data |-> angle_data, curves |-> curves,
     angle_curves |-> angle_curves, cube |-> cube,
     refreshed |-> FALSE, appended |-> FALSE, error |-> "", algorithm |-> 0]

\* the timer slot: one call of update_plot while `incoming` arrives on the
\* line, or while the port call `port_fault` raises.  What an exception that
\* leaves a slot does to the application depends on the PyQt5 build: it is
\* printed and the event loop goes on, or the process is aborted.
UpdatePlot(incoming, port_fault) ==
    \E rd \in {GetSerialData(rx_buffer, incoming, port_fault)} :
    \E r \in {UpdatePlotCall(View, rd, selected_algorithm)} :
       /\ data' = r.data
       /\ angle_data' = r.angle_data
       /\ curves' = r.curves
       /\ angle_curves' = r.angle_curves
       /\ cube' = r.cube
       /\ refreshed' = r.refreshed
       /\ accepted' = IF r.appended THEN accepted + 1 ELSE accepted
       /\ refreshes' = IF r.refreshed THEN refreshes + 1 ELSE refreshes
       /\ escaped' = r.error
       /\ timer_active' \in (IF r.error = "" THEN {timer_active} ELSE {TRUE, FALSE})
       /\ estimated_with' = r.algorithm
       /\ rx_buffer' = rd.rx_buffer
       /\ discarded' = rd.discarded
       /\ values' = rd.ret
       /\ wire' = incoming
       /\ fault' = port_fault
       /\ op' = "tick"
       /\ fed' = IF fed >= 0 /\ fed < MaxFed /\ selected_algorithm = 1
                    /\ port_fault = "" /\ IsWireFrame(incoming)
                 THEN fed + 1 ELSE 0 - 1
       /\ UNCHANGED <<selected_algorithm, last_selected, win, win_maxlen, win_appended>>

\* a variant that takes the radio button's position, counted from 0
ButtonIdFromZero(id) == id - 1

\* self.algorithms.id(button), line 129: the id addButton gave the button
ButtonId(id) == id

\* the radio-button slot change_algorithm, with the clicked button's id
ChangeAlgorithm(id) ==
    /\ selected_algorithm' = ButtonId(id)
    /\ last_selected' = id
    /\ op' = "select"
    /\ escaped' = ""
    /\ fed' = IF id = 1 THEN fed ELSE 0 - 1
    /\ UNCHANGED <<data, angle_data, curves, angle_curves, cube, rx_buffer, wire,
                   values, refreshed, accepted, refreshes, timer_active,
                   estimated_with, fault, discarded, win, win_maxlen, win_appended>>

\* one call of get_serial_data on its own
GetSerialDataCall(incoming) ==
    \E rd \in {GetSerialData(rx_buffer, incoming, "")} :
       /\ values' = rd.ret
       /\ rx_buffer' = rd.rx_buffer
       /\ discarded' = rd.discarded
       /\ wire' = incoming
       /\ op' = "read"
       /\ escaped' = rd.error
       /\ UNCHANGED <<data, angle_data, curves, angle_curves, cube, selected_algorithm,
                      refreshed, accepted, refreshes, timer_active, estimated_with,
                      last_selected, fault, fed, win, win_maxlen, win_appended>>

----------------------------------------------------------------------------
(* The sensor *)

\* the motion the sensor reports, sample after sample: <<ax, ay, az, gx, gy, gz>>
SensorPattern ==
    << <<0, 0, 1, 1, 2, 3>>,
       <<0, 1, 0, -1, -2, -3>>,
       <<1, 0, 0, 4, 5, 6>>,
       <<-1, 1, 0, 7, 8, -7>>,
       <<0, -1, 0, 300, -300, 1>>,
       <<0, 0, -1, -4, 0, 5>>,
       <<3, 0, -3, 2, -2, 255>> >>

\* the sample the sensor reports once n samples were taken
PatternSample(n) == SensorPattern[(n % Len(SensorPattern)) + 1]

\* what may arrive on the line during one read when the sensor reports s:
\* the frame with and without a terminator, nothing, an empty line, the frame
\* behind a stray byte, a short and a long payload, the frame with gz = 32
\* (its last byte is a space) or gx = 10 (a line feed inside the payload),
\* two and three frames back to back, and an empty line with a frame behind
\* it.  What follows the first line feed arrives after the read returned and
\* waits in the port's buffer when the next tick begins.
Deliveries(s) ==
    { Frame(s) \o <<10>>,
      Frame(s),
      Frame(s) \o <<13, 10>>,
      <<>>,
      <<10>>,
      <<32>> \o Frame(s) \o <<10>>,
      <<1>> \o Frame(s) \o <<10>>,
      SubSeq(Frame(s), 1, 12) \o <<10>>,
      Frame(s) \o <<7, 10>>,
      Frame([s EXCEPT ![6] = 32]) \o <<10>>,
      Frame([s EXCEPT ![4] = 10]) \o <<10>>,
      Frame(s) \o <<10>> \o Frame(s) \o <<10>>,
      Frame(s) \o <<10>> \o Frame(s) \o <<10>> \o Frame(s) \o <<10>>,
      <<10>> \o Frame(s) \o <<10>> }

\* values tried in each field of a frame given to the decoder on its own
DecodeValues == {-1, 3, 10, 32, -32768}

Terminators == {<<>>, <<10>>, <<13, 10>>}

\* well-formed frames of the wire format
FrameInputs ==
    {Frame(s) \o t : s \in [1..6 -> DecodeValues], t \in Terminators}

\* other records: a frame or a part of one, between stray bytes
RecordInputs ==
    {pre \o SubSeq(Frame(s), 1, n) \o post :
        pre \in {<<>>, <<32>>, <<13>>, <<1>>, <<85>>, <<170>>},
        s \in {<<1, -1, 2, -2, 3, -3>>, <<170, 85, 0, 0, 0, 7>>},
        n \in {0, 1, 2, 3, 13, 14},
        post \in {<<>>, <<10>>, <<13, 10>>, <<32, 10>>, <<7>>, <<7, 10>>}}

DecodeInputs == FrameInputs \cup RecordInputs

WindowValues == {0, 1, 2}

----------------------------------------------------------------------------
(* Specifications *)

EmptyWindows(n) == [i \in 1..n |-> <<>>]

\* the state __init__ leaves
Init ==
    /\ data = EmptyWindows(6)
    /\ angle_data = EmptyWindows(3)
    /\ curves = EmptyWindows(6)
    /\ angle_curves = EmptyWindows(3)
    /\ cube = <<>>
    /\ selected_algorithm = 1
    /\ rx_buffer = <<>>
    /\ wire = <<>>
    /\ values = None
    /\ op = "init"
    /\ refreshed = FALSE
    /\ accepted = 0
    /\ refreshes = 0
    /\ escaped = ""
    /\ timer_active = TRUE
    /\ estimated_with = 0
    /\ last_selected = 0
    /\ fault = ""
    /\ discarded = <<>>
    /\ fed = 0
    /\ win = <<>>
    /\ win_maxlen = PLOT_LENGTH
    /\ win_appended = <<>>

\* whether the line misbehaves once n samples were taken
Rich(n) == n < RichEarly \/ n >= PLOT_LENGTH - RichLate

\* the timer fires
Tick ==
    /\ timer_active
    /\ accepted < MaxAccepted
    /\ \/ /\ Rich(accepted)
          /\ \E incoming \in Deliveries(PatternSample(accepted)) : UpdatePlot(incoming, "")
       \/ /\ Rich(accepted)
          /\ \E port_fault \in PortFaults : UpdatePlot(<<>>, port_fault)
       \/ /\ ~Rich(accepted)
          /\ UpdatePlot(Frame(PatternSample(accepted)) \o <<10>>, "")

\* a radio button is clicked
Select == timer_active /\ \E id \in 1..3 : ChangeAlgorithm(id)

Next == Tick \/ Select

Spec == Init /\ [][Next]_vars

\* the decoder on its own, over DecodeInputs
Decode == op = "init" /\ \E incoming \in DecodeInputs : GetSerialDataCall(incoming)

SpecDecode == Init /\ [][Decode]_vars

\* a deque on its own, over every maxlen up to MaxCap
InitWindow ==
    /\ data = EmptyWindows(6)
    /\ angle_data = EmptyWindows(3)
    /\ curves = EmptyWindows(6)
    /\ angle_curves = EmptyWindows(3)
    /\ cube = <<>>
    /\ selected_algorithm = 1
    /\ rx_buffer = <<>>
    /\ wire = <<>>
    /\ values = None
    /\ op = "init"
    /\ refreshed = FALSE
    /\ accepted = 0
    /\ refreshes = 0
    /\ escaped = ""
    /\ timer_active = TRUE
    /\ estimated_with = 0
    /\ last_selected = 0
    /\ fault = ""
    /\ discarded = <<>>
    /\ fed = 0
    /\ win = <<>>
    /\ win_maxlen \in 0..MaxCap
    /\ win_appended = <<>>

WindowAppend ==
    /\ Len(win_appended) < MaxAppends
    /\ \E v \in WindowValues :
          /\ win' = DequeAppend(win, v, win_maxlen)
          /\ win_appended' = Append(win_appended, v)
    /\ UNCHANGED <<data, angle_data, curves, angle_curves, cube, selected_algorithm,
                   rx_buffer, wire, values, op, refreshed, accepted, refreshes, escaped,
                   timer_active, estimated_with, last_selected, fault, discarded, fed,
                   win_maxlen>>

SpecWindow == InitWindow /\ [][WindowAppend]_vars

----------------------------------------------------------------------------
(* Properties of the decoder, under SpecDecode *)

\* the six int16BE values the bytes 3..14 of a wire frame carry
WireSample(frame) == [i \in 1..6 |-> Int16FromBytes(frame[2 * i + 1], frame[2 * i + 2])]

\* the record the latest read took off the line, terminator included
Record == Readline(wire)

\* that record without its line terminator and trailing whitespace
TrimmedRecord == RStrip(Record)

\* C1: when the line delivers the 14-byte frame 0xAA 0x55 + six int16BE values,
\* optionally followed by a line terminator, get_serial_data returns exactly
\* those six values in that order.
C1_FrameDecodesExactly ==
    (op = "read" /\ IsWireFrame(wire)) => values = WireSample(wire)

\* C2: a record whose first two bytes are not 0xAA 0x55 yields None, whatever
\* follows; a sync marker at a later offset is never used.
C2_NoSyncNoData ==
    (op = "read" /\ TakeFirst(Record, 2) # SYNC) => values = None

\* C3: a record that starts with the sync marker and whose payload after the
\* marker is not exactly 12 bytes long yields no sample, and no exception
\* leaves get_serial_data.
C3_MalformedNoSample ==
    (/\ op = "read"
     /\ TakeFirst(TrimmedRecord, 2) = SYNC
     /\ Len(TrimmedRecord) - 2 # 12)
    => (values = None /\ escaped = "")

\* C3 witness: a record with the sync marker and 13 payload bytes was read
C3_Witness ==
    /\ op = "read"
    /\ TakeFirst(TrimmedRecord, 2) = SYNC
    /\ Len(TrimmedRecord) - 2 = 13
    /\ values = None

----------------------------------------------------------------------------
(* Properties of one window, under SpecWindow *)

LastN(s, n) == SubSeq(s, Len(s) - n + 1, Len(s))

\* C4: after M > N appends to a window of capacity N, its contents have length
\* exactly N and are the last N appended values, oldest first; an append at
\* capacity evicts exactly the oldest element.
C4_WindowKeepsLastN ==
    /\ [](Len(win_appended) > win_maxlen
            => (Len(win) = win_maxlen /\ win = LastN(win_appended, win_maxlen)))
    /\ [][(Len(win) = win_maxlen /\ win_maxlen > 0 /\ win_appended' # win_appended)
            => win' = Append(Tail(win), win_appended'[Len(win_appended')])]_vars

\* C4 witness: a window of capacity 2 or more that has evicted twice
C4_Witness ==
    /\ win_maxlen >= 2
    /\ Len(win_appended) >= win_maxlen + 2
    /\ win[1] # win[2]
    /\ win_appended[1] # win[1]

----------------------------------------------------------------------------
(* Properties of the running program, under Spec *)

Windows == data \o angle_data

\* w2 is w after exactly one append to a deque of maxlen PLOT_LENGTH
AppendedOne(w, w2) ==
    /\ w2 # <<>>
    /\ \/ w2 = Append(w, w2[Len(w2)])
       \/ Len(w) = PLOT_LENGTH /\ w2 = Append(Tail(w), w2[Len(w2)])

\* C5: each of the six raw windows and three angle windows holds at most
\* PLOT_LENGTH elements, in every reachable state.
C5_WindowsBounded == \A i \in 1..9 : Len(Windows[i]) <= PLOT_LENGTH

\* C5 witness: more samples were accepted than a window holds
C5_Witness ==
    /\ accepted > PLOT_LENGTH
    /\ \A i \in 1..9 : Len(Windows[i]) = PLOT_LENGTH

\* C6: all nine windows always have the same length, and a tick appends
\* exactly one element to every one of them or to none.
C6_LockStep ==
    /\ [](\A i \in 1..9 : Len(Windows[i]) = Len(Windows[1]))
    /\ [][op' = "tick" =>
            \/ Windows' = Windows
            \/ \A i \in 1..9 : AppendedOne(Windows[i], Windows'[i])]_vars

\* C6 witness: a tick appended to full windows after algorithm changes had
\* skipped a cycle
C6_Witness ==
    /\ op = "tick"
    /\ fed < 0
    /\ values # None
    /\ accepted > PLOT_LENGTH
    /\ Len(angle_data[3]) = PLOT_LENGTH

\* C7: a tick whose get_serial_data gave no sample leaves the nine windows
\* unchanged, refreshes no curve and does not change the cube transform.
C7_NoSampleNoEffect ==
    [][(op' = "tick" /\ values' = None) =>
          /\ UNCHANGED <<data, angle_data, curves, angle_curves, cube, refreshes>>
          /\ ~refreshed']_vars

\* C7 witness: a malformed record was read while the windows held samples
C7_Witness ==
    /\ op = "tick"
    /\ values = None
    /\ TakeFirst(TrimmedRecord, 2) = SYNC
    /\ Len(data[1]) > 0
    /\ cube # <<>>

\* C8: under algorithm 2 or 3 a tick that decodes a valid frame is skipped:
\* no window is modified, no exception leaves update_plot and the timer keeps
\* running.
C8_UnsupportedSkipped ==
    [][(op' = "tick" /\ values' # None /\ selected_algorithm \in {2, 3}) =>
          /\ UNCHANGED <<data, angle_data>>
          /\ escaped' = ""
          /\ timer_active']_vars

\* C8 witness: a frame was decoded under algorithm 2 or 3 with samples in the
\* windows
C8_Witness ==
    /\ op = "tick"
    /\ values # None
    /\ selected_algorithm \in {2, 3}
    /\ Len(data[1]) > 0
    /\ accepted = Len(data[1])

\* C9: on a cycle that accepts a sample the curves are refreshed only when the
\* raw-window length is at most the capacity or the number of samples accepted
\* so far is a multiple of 5, and the sample is appended to the windows
\* whether or not the refresh runs.
C9_RefreshThrottle ==
    [][(op' = "tick" /\ accepted' = accepted + 1) =>
          /\ refreshed' => (Len(data'[1]) <= PLOT_LENGTH \/ accepted' % 5 = 0)
          /\ \A i \in 1..9 : AppendedOne(Windows[i], Windows'[i])
          /\ \A i \in 1..6 : data'[i][Len(data'[i])] = values'[i]]_vars

\* C9 witness: a refresh on a cycle with full windows whose sample count is
\* not a multiple of 5
C9_Witness ==
    /\ op = "tick"
    /\ refreshed
    /\ accepted > PLOT_LENGTH
    /\ accepted % 5 # 0
    /\ data[1][Len(data[1])] = values[1]

\* C10: from empty windows under algorithm 1, k <= PLOT_LENGTH valid frames, one
\* per tick, leave exactly k entries in each of the nine windows, and the
\* curves were refreshed on every one of the k cycles.
C10_FramesAllAccepted ==
    (fed >= 0 /\ fed <= Min(MaxFed, PLOT_LENGTH)) =>
        /\ \A i \in 1..9 : Len(Windows[i]) = fed
        /\ refreshes = fed

----------------------------------------------------------------------------
(* Selection events, port failures, buffered bytes, the cube and the yaw,
   under Spec *)

\* the algorithm in force: the id of the latest selection event, 1 before any
InForce == IF last_selected = 0 THEN 1 ELSE last_selected

\* C11: a selection event carrying k sets selected_algorithm to k and touches
\* nothing else; every tick until the next selection event estimates with k;
\* before any selection event the algorithm is 1.
C11_SelectionTakesEffect ==
    /\ [](selected_algorithm = InForce)
    /\ [][op' = "select" =>
            UNCHANGED <<data, angle_data, curves, angle_curves, cube, rx_buffer,
                        accepted, refreshes, timer_active>>]_vars
    /\ [][op' = "tick" =>
            /\ selected_algorithm' = selected_algorithm
            /\ values' # None => estimated_with' = InForce]_vars

\* C11 witness: a tick estimated with algorithm 3 after it was selected, with
\* samples in the windows
C11_Witness ==
    /\ op = "tick"
    /\ last_selected = 3
    /\ estimated_with = 3
    /\ Len(data[1]) > 0

\* C12: when reset_input_buffer or readline raises during a tick, the
\* exception leaves update_plot and the tick modifies no window.
C12_PortFailurePropagates ==
    [][(op' = "tick" /\ fault' \in PortFaults) =>
          /\ escaped' = "SerialException"
          /\ UNCHANGED <<data, angle_data>>]_vars

\* C12 witness: readline raised while the windows held samples
C12_Witness ==
    /\ op = "tick"
    /\ fault = "readline"
    /\ escaped = "SerialException"
    /\ Len(data[1]) > 0

\* the latest tick was a skipped cycle: it read nothing it could decode
SkippedCycle == op = "tick" /\ fault = "" /\ escaped = "" /\ values = None

\* C13: skipped cycles never stop the loop, and the next valid frame received
\* while algorithm 1 is selected is appended to all nine windows.
C13_ValidFrameAfterSkipAppended ==
    /\ [][(op' = "tick" /\ fault' = "") => timer_active']_vars
    /\ [][(/\ SkippedCycle
           /\ selected_algorithm = 1
           /\ op' = "tick"
           /\ fault' = ""
           /\ IsWireFrame(wire'))
          => /\ accepted' = accepted + 1
             /\ \A i \in 1..9 : AppendedOne(Windows[i], Windows'[i])]_vars

\* C14: every read first discards all buffered bytes, so a sample is only
\* decoded from bytes that arrived during the tick, and one tick accepts at
\* most one sample however many frames were buffered.
C14_StaleBytesDiscarded ==
    [][(op' = "tick" /\ fault' = "") =>
          /\ discarded' = rx_buffer
          /\ values' # None =>
                \E k \in 1..Len(wire') :
                    /\ k + 13 <= Len(wire')
                    /\ SubSeq(wire', k, k + 13) = Frame(values')
          /\ accepted' <= accepted + 1
          /\ \A i \in 1..9 : Len(Windows'[i]) <= Len(Windows[i]) + 1]_vars

\* C14 witness: two frames were buffered when a tick began, nothing arrived
\* during it and it accepted nothing
C14_Witness ==
    /\ op = "tick"
    /\ fault = ""
    /\ Len(discarded) = 30
    /\ wire = <<>>
    /\ values = None
    /\ accepted = 1

\* C15: an accepting cycle resets the cube transform, then rotates by the roll
\* just appended about x, then by the pitch just appended about y; the yaw is
\* not applied.
C15_CubeFollowsRollPitch ==
    [][(op' = "tick" /\ accepted' = accepted + 1) =>
          cube' = << <<angle_data'[1][Len(angle_data'[1])], 1, 0, 0>>,
                     <<angle_data'[2][Len(angle_data'[2])], 0, 1, 0>> >>]_vars

\* C15 witness: the cube, rotated before, now shows roll 90 and pitch 45
C15_Witness ==
    /\ op = "tick"
    /\ values # None
    /\ accepted >= 2
    /\ cube = << <<90, 1, 0, 0>>, <<45, 0, 1, 0>> >>

C17_OnlyAlgorithmOneYawZero ==
    /\ [](\A j \in 1..Len(angle_data[3]) : angle_data[3][j] = 0)
    /\ [][Windows' # Windows =>
            (op' = "tick" /\ selected_algorithm = 1 /\ estimated_with' = 1)]_vars

\* C17 witness: full windows after algorithm 1 was selected again
C17_Witness ==
    /\ op = "tick"
    /\ last_selected = 1
    /\ estimated_with = 1
    /\ accepted > PLOT_LENGTH
    /\ Len(angle_data[3]) = PLOT_LENGTH
    /\ angle_data[1][Len(angle_data[1])] # 0

====
